---- MODULE Spec2Model ----
(***************************************************************************)
(* Model of func/main.py: the HTTP handler generate_token, which exchanges *)
(* a Terraform Cloud session token and run id for a Google Cloud access    *)
(* token.  One invocation is a straight-line pipeline that blocks on three *)
(* outbound HTTP calls and one call of the IAM credentials API; the model  *)
(* has one action per blocking segment of the handler, and runs several    *)
(* invocations side by side over the one process-wide SA_MAPPING.          *)
(*                                                                         *)
(* JSON values are tagged records: [t |-> "obj", f |-> <function>],        *)
(* [t |-> "str", v |-> <string>], [t |-> "num", v |-> <number>],           *)
(* [t |-> "true"], [t |-> "false"], [t |-> "null"].                        *)
(***************************************************************************)
EXTENDS Naturals, Sequences, FiniteSets, TLC

VARIABLES SA_MAPPING, pc, request, parsed_mapping, acct_resp, run_resp,
          ws_resp, ws_slug, calls, minted, response, raised

vars == <<SA_MAPPING, pc, request, parsed_mapping, acct_resp, run_resp,
          ws_resp, ws_slug, calls, minted, response, raised>>

\* The invocations in flight (worker threads of the functions framework).
Invocations == {"inv1", "inv2"}

----------------------------------------------------------------------------
\* JSON values

JTrue == [t |-> "true"]
JFalse == [t |-> "false"]
JNull == [t |-> "null"]
JStr(s) == [t |-> "str", v |-> s]
JNum(n) == [t |-> "num", v |-> n]
JObj(f) == [t |-> "obj", f |-> f]

\* "No value yet" for the per-invocation history variables.
None == [kind |-> "none"]

\* Python subscription v[k] on a decoded JSON value: a dict yields the
\* member or raises KeyError, any other JSON value indexed by a string
\* raises TypeError.
Raise(e) == [t |-> "raise", exc |-> e]

Subscript(v, k) ==
    IF v.t = "raise" THEN v
    ELSE IF v.t = "obj"
         THEN IF k \in DOMAIN v.f THEN v.f[k] ELSE Raise("KeyError")
         ELSE Raise("TypeError")

\* v[p1][p2]...[pn], left to right, stopping at the first exception.
RECURSIVE Lookup(_, _)
Lookup(v, path) ==
    IF path = << >> THEN v
    ELSE Lookup(Subscript(v, Head(path)), Tail(path))

----------------------------------------------------------------------------
\* Module-level constants of main.py

RUNS_BASE_URL == "https://app.terraform.io/api/v2/runs/"
WORKSPACE_BASE_URL == "https://app.terraform.io/api/v2/workspaces/"
ACCOUNT_URL == "https://app.terraform.io/api/v2/account/details"
GOOGLE_DEFAULT_AUTH_SCOPES == <<"https://www.googleapis.com/auth/cloud-platform">>

\* A Flask return value (body, status); a bare dict is status 200.
Resp(code, body) == [kind |-> "http", code |-> code, body |-> body]

BAD_GATEWAY ==
    Resp(502, ("status" :> JStr("error") @@ "msg" :> JStr("Bad Gateway")
               @@ "token" :> JNull))

\* Mutant of REQUEST_SCHEMA: the schema built without extra=False.
REQUEST_SCHEMA_extra_allowed(v) ==
    /\ v.t = "obj"
    /\ {"TFC_TOKEN", "RUN_ID"} \subseteq DOMAIN v.f
    /\ \A k \in {"TFC_TOKEN", "RUN_ID"} : v.f[k].t = "str"

\* Mutant of REQUEST_SCHEMA: both fields validated as non-empty strings.
REQUEST_SCHEMA_nonempty(v) ==
    /\ v.t = "obj"
    /\ {"TFC_TOKEN", "RUN_ID"} \subseteq DOMAIN v.f
    /\ DOMAIN v.f \subseteq {"TFC_TOKEN", "RUN_ID"}
    /\ \A k \in DOMAIN v.f : v.f[k].t = "str" /\ v.f[k].v # ""

\* voluptuous.Schema({Required('TFC_TOKEN'): str, Required('RUN_ID'): str},
\* extra=False): a dict with exactly these two keys, both values strings.
REQUEST_SCHEMA(v) ==
    /\ v.t = "obj"
    /\ {"TFC_TOKEN", "RUN_ID"} \subseteq DOMAIN v.f
    /\ DOMAIN v.f \subseteq {"TFC_TOKEN", "RUN_ID"}
    /\ \A k \in DOMAIN v.f : v.f[k].t = "str"

\* request.get_json(silent=True): None for a missing or unparseable body
\* and for the JSON document null.
get_json(req) == IF req.json THEN req.val ELSE JNull

\* Mutant of raise_for_status: only server errors raise.
raise_for_status_5xx_only(resp) == resp.status >= 500 /\ resp.status < 600

\* requests.Response.raise_for_status raises HTTPError for 4xx and 5xx.
raise_for_status(resp) == resp.status >= 400 /\ resp.status < 600

\* Mutant of IsUnauthorized: the wrong status code is singled out.
IsUnauthorized_403(resp) == resp.status = 403

\* The test of line 109 that tells an expired or invalid token from any
\* other HTTP error of the account details call.
IsUnauthorized(resp) == resp.status = 401

\* Mutant of NotServiceAccount: only a missing flag is refused.
NotServiceAccount_null_only(flag) == flag = JNull

\* The test of line 127 on the decoded is-service-account flag.
NotServiceAccount(flag) == flag # JTrue

\* Mutant of sa_ref: the mapping is indexed with a fixed workspace, not
\* with the slug of the run.
sa_ref_fixed_workspace(creds_mapping, tfc_ws_slug) ==
    "projects/-/serviceAccounts/"
        \o creds_mapping.f[IF "org-a/prod" \in DOMAIN creds_mapping.f
                           THEN "org-a/prod" ELSE tfc_ws_slug].v

\* The sa_ref built by get_sa_token (line 51).
sa_ref(creds_mapping, tfc_ws_slug) ==
    "projects/-/serviceAccounts/" \o creds_mapping.f[tfc_ws_slug].v

\* Mutant of NotInMapping: the lookup is skipped when the mapping has entries.
NotInMapping_only_if_empty(slug, mapping) == DOMAIN mapping.f = {}

\* Mutant of NotInMapping: an empty mapping is taken to allow every workspace.
NotInMapping_nonempty_only(slug, mapping) ==
    slug \notin DOMAIN mapping.f /\ DOMAIN mapping.f # {}

\* The operand of `not in` at line 188: key membership in the parsed dict.
NotInMapping(slug, mapping) == slug \notin DOMAIN mapping.f

\* Mutant of expected_run_status: a finished run is accepted too.
expected_run_status_with_errored == {"planning", "applying", "errored"}

\* The tuple of run statuses for which a token is issued.
expected_run_status == {"planning", "applying"}

----------------------------------------------------------------------------
\* Inputs: the configuration, the inbound requests and the answers of the
\* outside world, each a small set that covers the branches of the handler.

\* SA_MAPPING_CONFIG: absent (the default "{}"), a JSON object, or text
\* that is not JSON.
MappingConfigs ==
    { [valid |-> FALSE],
      [valid |-> TRUE, val |-> JObj(<< >>)],
      [valid |-> TRUE, val |-> JObj("org-a/prod" :> JStr("sa1@proj.iam"))],
      [valid |-> TRUE, val |-> JObj("org-a/prod" :> JStr("sa1@proj.iam")
                                    @@ "org-a/dev" :> JStr("sa2@proj.iam"))] }

Requests ==
    { [json |-> FALSE],
      [json |-> TRUE, val |-> JNull],
      [json |-> TRUE, val |-> JObj(<< >>)],
      [json |-> TRUE, val |-> JObj("TFC_TOKEN" :> JStr("t1"))],
      [json |-> TRUE, val |-> JObj("RUN_ID" :> JStr("run-123"))],
      [json |-> TRUE, val |-> JObj("TFC_TOKEN" :> JStr("t1")
                                   @@ "RUN_ID" :> JNum(123))],
      [json |-> TRUE, val |-> JObj("TFC_TOKEN" :> JStr("t1")
                                   @@ "RUN_ID" :> JStr("run-123")
                                   @@ "EXTRA" :> JStr("x"))],
      [json |-> TRUE, val |-> JObj("TFC_TOKEN" :> JStr("t1")
                                   @@ "RUN_ID" :> JStr("run-123"))],
      [json |-> TRUE, val |-> JObj("TFC_TOKEN" :> JStr("")
                                   @@ "RUN_ID" :> JStr(""))],
      [json |-> TRUE, val |-> JObj("TFC_TOKEN" :> JStr("t1")
                                   @@ "RUN_ID" :> JStr(""))] }

\* What requests.get can come back with: no HTTP response at all (the call
\* raises), or a status and a body that is JSON text or is not.
NetError == [kind |-> "neterr"]
Http(status, body) == [kind |-> "http", status |-> status, body |-> body]
NotJson == [json |-> FALSE]
Json(v) == [json |-> TRUE, val |-> v]

AccountJson(flag) ==
    JObj("data" :> JObj("attributes" :> JObj("is-service-account" :> flag)))

AccountBodies ==
    { NotJson,
      Json(JObj("errors" :> JStr("unauthorized"))),
      Json(AccountJson(JTrue)),
      Json(AccountJson(JFalse)) }

AccountResponses ==
    {NetError}
    \cup {Http(200, b) : b \in AccountBodies}
    \cup {Http(s, b) : s \in {401, 403, 500},
                       b \in {NotJson, Json(AccountJson(JTrue))}}

RunJson(status, wsid) ==
    JObj("data" :> JObj("attributes" :> JObj("status" :> JStr(status))
                        @@ "relationships" :> JObj("workspace" :>
                               JObj("data" :> JObj("id" :> JStr(wsid))))))

RunBodies ==
    { NotJson,
      Json(JObj("errors" :> JStr("not found"))),
      Json(JObj("data" :> JObj("attributes" :>
                                   JObj("status" :> JStr("errored"))))),
      Json(RunJson("planning", "ws-1")),
      Json(RunJson("applying", "ws-1")),
      Json(RunJson("errored", "ws-1")) }

RunResponses ==
    {NetError}
    \cup {Http(200, b) : b \in RunBodies}
    \cup {Http(404, b) : b \in {NotJson, Json(JObj("errors" :> JStr("not found"))),
                                Json(RunJson("planning", "ws-1"))}}

WorkspaceJson(org, name) ==
    JObj("data" :> JObj("attributes" :> JObj("name" :> JStr(name))
                        @@ "relationships" :> JObj("organization" :>
                               JObj("data" :> JObj("id" :> JStr(org))))))

WorkspaceBodies ==
    { NotJson,
      Json(JObj("errors" :> JStr("not found"))),
      Json(JObj("data" :> JObj("relationships" :> JObj("organization" :>
                               JObj("data" :> JObj("id" :> JStr("org-a"))))))),
      Json(WorkspaceJson("org-a", "prod")),
      Json(WorkspaceJson("org-a", "dev")) }

WorkspaceResponses ==
    {NetError}
    \cup {Http(200, b) : b \in WorkspaceBodies}
    \cup {Http(s, b) : s \in {404, 500},
                       b \in {NotJson, Json(WorkspaceJson("org-a", "prod"))}}

\* What IAMCredentialsClient.generate_access_token can come back with: an
\* access token, or an exception of the API client.
MintFailure == [kind |-> "mintfail"]
MintToken(tok) == [kind |-> "token", access_token |-> tok]
MintResults == {MintFailure, MintToken("ya29.a"), MintToken("ya29.b")}

----------------------------------------------------------------------------
\* State.  SA_MAPPING is the module global read from the environment at
\* import; everything else is local to one invocation:
\*   pc              where the invocation stands (the next blocking call)
\*   request         the inbound request
\*   parsed_mapping  the local bound at line 67
\*   acct_resp, run_resp, ws_resp   the answers of the three requests.get
\*   ws_slug         the local bound at line 182
\*   calls           the outbound calls issued so far, in order
\*   minted          the answer of generate_access_token
\*   response        the value returned to the HTTP runtime
\*   raised          the exception that left the handler unhandled

Init ==
    /\ SA_MAPPING \in MappingConfigs
    /\ pc = [i \in Invocations |-> "start"]
    /\ request = [i \in Invocations |-> None]
    /\ parsed_mapping = [i \in Invocations |-> None]
    /\ acct_resp = [i \in Invocations |-> None]
    /\ run_resp = [i \in Invocations |-> None]
    /\ ws_resp = [i \in Invocations |-> None]
    /\ ws_slug = [i \in Invocations |-> None]
    /\ calls = [i \in Invocations |-> << >>]
    /\ minted = [i \in Invocations |-> None]
    /\ response = [i \in Invocations |-> None]
    /\ raised = [i \in Invocations |-> None]

\* Mutant of Return: the response is produced but the handler does not stop,
\* so the stage it was in runs again.
Return_keeps_running(i, r) ==
    /\ response' = [response EXCEPT ![i] = r]
    /\ UNCHANGED <<pc, raised>>

\* Mutant of Return: the response is kept in a module global that every
\* invocation in flight reads its answer from.
Return_shared_response(i, r) ==
    /\ pc' = [pc EXCEPT ![i] = "done"]
    /\ response' = [k \in Invocations |-> r]
    /\ UNCHANGED raised

\* The handler returns a response: the invocation is over.
Return(i, r) ==
    /\ pc' = [pc EXCEPT ![i] = "done"]
    /\ response' = [response EXCEPT ![i] = r]
    /\ UNCHANGED raised

\* An exception nobody catches leaves the handler: the invocation is over
\* and the handler has returned nothing.
Throw(i, exc, line) ==
    /\ pc' = [pc EXCEPT ![i] = "done"]
    /\ raised' = [raised EXCEPT ![i] = [kind |-> "exc", exc |-> exc, line |-> line]]
    /\ UNCHANGED response

\* The handler goes on to its next blocking call.
Goto(i, label) ==
    /\ pc' = [pc EXCEPT ![i] = label]
    /\ UNCHANGED <<response, raised>>

\* Lines 66-97: parse the mapping, decode and validate the request.
Receive(i, req) ==
    /\ pc[i] = "start"
    /\ request' = [request EXCEPT ![i] = req]
    /\ UNCHANGED <<SA_MAPPING, acct_resp, run_resp, ws_resp, ws_slug, calls, minted>>
    /\ IF ~SA_MAPPING.valid
       THEN \* json.loads raised, the except clause only logs, and line 71
            \* reads a local that was never bound
            /\ Throw(i, "UnboundLocalError", 71)
            /\ UNCHANGED parsed_mapping
       ELSE /\ parsed_mapping' = [parsed_mapping EXCEPT ![i] = SA_MAPPING.val]
            /\ IF get_json(req) = JNull
               THEN Return(i, Resp(400,
                        "status" :> JStr("error")
                        @@ "message" :> JStr("invalid or missing JSON request body")))
               ELSE IF ~REQUEST_SCHEMA(get_json(req))
               THEN Return(i, Resp(400,
                        "status" :> JStr("error")
                        @@ "message" :> JStr("Invalid JSON schema in request body from client: ...")
                        @@ "token" :> JNull))
               ELSE Goto(i, "account")

\* The locals tfc_token and tfc_run_id (lines 93-94) and the headers of
\* line 102, read from the validated request.
tfc_token(i) == request[i].val.f["TFC_TOKEN"].v
tfc_run_id(i) == request[i].val.f["RUN_ID"].v
headers(i) == "Bearer " \o tfc_token(i)

HttpCall(api, url, hdr) == [api |-> api, url |-> url, headers |-> hdr]

\* Lines 99-130: the account details call and the principal check.
AccountDetails(i, resp) ==
    /\ pc[i] = "account"
    /\ calls' = [calls EXCEPT ![i] = Append(@, HttpCall("account", ACCOUNT_URL, headers(i)))]
    /\ acct_resp' = [acct_resp EXCEPT ![i] = resp]
    /\ UNCHANGED <<SA_MAPPING, request, parsed_mapping, run_resp, ws_resp, ws_slug, minted>>
    /\ IF resp = NetError
       THEN Throw(i, "ConnectionError", 103)
       ELSE IF raise_for_status(resp)
       THEN IF IsUnauthorized(resp)
            THEN Return(i, Resp(401, "status" :> JStr("error")
                                     @@ "msg" :> JStr("Unauthorized")
                                     @@ "token" :> JNull))
            ELSE Return(i, BAD_GATEWAY)
       ELSE IF ~resp.body.json
       THEN Return(i, BAD_GATEWAY)
       ELSE LET flag == Lookup(resp.body.val,
                               <<"data", "attributes", "is-service-account">>)
            IN  IF flag.t = "raise"
                THEN Throw(i, flag.exc, 127)
                ELSE IF NotServiceAccount(flag)
                THEN Return(i, Resp(400, "status" :> JStr("error")
                         @@ "msg" :> JStr("Token does not belong to a service account")
                         @@ "token" :> JNull))
                ELSE Goto(i, "run")

\* The locals run_status and tfc_ws_id (lines 149-150) of a decoded run.
RunStatusOf(resp) == Lookup(resp.body.val, <<"data", "attributes", "status">>)
RunWorkspaceOf(resp) ==
    Lookup(resp.body.val, <<"data", "relationships", "workspace", "data", "id">>)

\* Lines 132-160: the run details call and the run status check.  An HTTP
\* error status is logged and the body is decoded all the same.
RunDetails(i, resp) ==
    /\ pc[i] = "run"
    /\ calls' = [calls EXCEPT ![i] =
                    Append(@, HttpCall("run", RUNS_BASE_URL \o tfc_run_id(i), headers(i)))]
    /\ run_resp' = [run_resp EXCEPT ![i] = resp]
    /\ UNCHANGED <<SA_MAPPING, request, parsed_mapping, acct_resp, ws_resp, ws_slug, minted>>
    /\ IF resp = NetError
       THEN Throw(i, "ConnectionError", 135)
       ELSE IF ~resp.body.json
       THEN Return(i, BAD_GATEWAY)
       ELSE LET run_status == RunStatusOf(resp)
                tfc_ws_id == RunWorkspaceOf(resp)
            IN  IF run_status.t = "raise"
                THEN Throw(i, run_status.exc, 149)
                ELSE IF tfc_ws_id.t = "raise"
                THEN Throw(i, tfc_ws_id.exc, 150)
                ELSE IF ~(run_status.t = "str" /\ run_status.v \in expected_run_status)
                THEN Return(i, Resp(400, "status" :> JStr("error")
                         @@ "msg" :> JStr("run status not planning or applying")
                         @@ "token" :> JNull))
                ELSE Goto(i, "workspace")

\* The locals tfc_org and tfc_ws_name (lines 180-181) of a decoded workspace.
WorkspaceOrgOf(resp) ==
    Lookup(resp.body.val, <<"data", "relationships", "organization", "data", "id">>)
WorkspaceNameOf(resp) == Lookup(resp.body.val, <<"data", "attributes", "name">>)

\* Line 182: ws_slug = f'{tfc_org}/{tfc_ws_name}'.
Slug(tfc_org, tfc_ws_name) == tfc_org \o "/" \o tfc_ws_name

\* Lines 162-191: the workspace details call, the slug and the mapping check.
WorkspaceDetails(i, resp) ==
    /\ pc[i] = "workspace"
    /\ calls' = [calls EXCEPT ![i] =
                    Append(@, HttpCall("workspace",
                                       WORKSPACE_BASE_URL \o RunWorkspaceOf(run_resp[i]).v,
                                       headers(i)))]
    /\ ws_resp' = [ws_resp EXCEPT ![i] = resp]
    /\ UNCHANGED <<SA_MAPPING, request, parsed_mapping, acct_resp, run_resp, minted>>
    /\ IF resp = NetError
       THEN Throw(i, "ConnectionError", 165) /\ UNCHANGED ws_slug
       ELSE IF raise_for_status(resp)
       THEN Return(i, BAD_GATEWAY) /\ UNCHANGED ws_slug
       ELSE IF ~resp.body.json
       THEN Return(i, BAD_GATEWAY) /\ UNCHANGED ws_slug
       ELSE LET tfc_org == WorkspaceOrgOf(resp)
                tfc_ws_name == WorkspaceNameOf(resp)
            IN  IF tfc_org.t = "raise"
                THEN Throw(i, tfc_org.exc, 180) /\ UNCHANGED ws_slug
                ELSE IF tfc_ws_name.t = "raise"
                THEN Throw(i, tfc_ws_name.exc, 181) /\ UNCHANGED ws_slug
                ELSE LET slug == Slug(tfc_org.v, tfc_ws_name.v)
                     IN  /\ ws_slug' = [ws_slug EXCEPT ![i] = JStr(slug)]
                         /\ IF NotInMapping(slug, parsed_mapping[i])
                            THEN Return(i, Resp(404, "status" :> JStr("error")
                                     @@ "msg" :> JStr("no identity for workspace: " \o slug)
                                     @@ "token" :> JNull))
                            ELSE Goto(i, "mint")

MintCall(name, scope) == [api |-> "mint", name |-> name, scope |-> scope]

\* Mutant of Mint: the token is memoized per workspace slug, so a token
\* minted for another invocation is handed out again without a call.
Mint_memoized(i, result) ==
    /\ pc[i] = "mint"
    /\ UNCHANGED <<SA_MAPPING, request, parsed_mapping, acct_resp, run_resp, ws_resp, ws_slug>>
    /\ IF \E j \in Invocations \ {i} : minted[j].kind = "token" /\ ws_slug[j] = ws_slug[i]
       THEN LET j == CHOOSE j \in Invocations \ {i} :
                         minted[j].kind = "token" /\ ws_slug[j] = ws_slug[i]
            IN  /\ Return(i, Resp(200, "status" :> JStr("success")
                                       @@ "token" :> JStr(minted[j].access_token)))
                /\ UNCHANGED <<calls, minted>>
       ELSE /\ calls' = [calls EXCEPT ![i] =
                    Append(@, MintCall(sa_ref(parsed_mapping[i], ws_slug[i].v),
                                       GOOGLE_DEFAULT_AUTH_SCOPES))]
            /\ minted' = [minted EXCEPT ![i] = result]
            /\ IF result = MintFailure
               THEN Throw(i, "GoogleAPICallError", 57)
               ELSE Return(i, Resp(200, "status" :> JStr("success")
                                        @@ "token" :> JStr(result.access_token)))

\* Lines 193-198 and get_sa_token: the call of the IAM credentials API and
\* the success response.  An exception of the API client is not caught.
Mint(i, result) ==
    /\ pc[i] = "mint"
    /\ UNCHANGED <<SA_MAPPING, request, parsed_mapping, acct_resp, run_resp, ws_resp, ws_slug>>
    /\ IF ws_slug[i].v \notin DOMAIN parsed_mapping[i].f
       THEN \* creds_mapping[tfc_ws_slug] raises before the API is called
            /\ Throw(i, "KeyError", 51)
            /\ UNCHANGED <<calls, minted>>
       ELSE /\ calls' = [calls EXCEPT ![i] =
                    Append(@, MintCall(sa_ref(parsed_mapping[i], ws_slug[i].v),
                                       GOOGLE_DEFAULT_AUTH_SCOPES))]
            /\ minted' = [minted EXCEPT ![i] = result]
            /\ IF result = MintFailure
               THEN Throw(i, "GoogleAPICallError", 57)
               ELSE Return(i, Resp(200, "status" :> JStr("success")
                                        @@ "token" :> JStr(result.access_token)))

Next ==
    \E i \in Invocations :
        \/ \E req \in Requests : Receive(i, req)
        \/ \E resp \in AccountResponses : AccountDetails(i, resp)
        \/ \E resp \in RunResponses : RunDetails(i, resp)
        \/ \E resp \in WorkspaceResponses : WorkspaceDetails(i, resp)
        \/ \E result \in MintResults : Mint(i, result)

Spec == Init /\ [][Next]_vars

----------------------------------------------------------------------------
\* Vocabulary of the properties.  These read the history of an invocation
\* and do not use the operators of the handler.

\* The outbound calls of invocation i so far, by kind and in order.
RECURSIVE ApiSeq(_)
ApiSeq(cs) == IF cs = << >> THEN << >> ELSE <<Head(cs).api>> \o ApiSeq(Tail(cs))
Called(i, api) == \E k \in DOMAIN calls[i] : calls[i][k].api = api

HttpErrorStatus(status) == status \in 400..599

\* The request is a JSON object with exactly the fields TFC_TOKEN and RUN_ID,
\* both strings.
SchemaValidRequest(req) ==
    /\ req # None
    /\ req.json
    /\ req.val.t = "obj"
    /\ DOMAIN req.val.f = {"TFC_TOKEN", "RUN_ID"}
    /\ req.val.f["TFC_TOKEN"].t = "str"
    /\ req.val.f["RUN_ID"].t = "str"

\* The request has no usable body, or lacks one of the two fields, or carries
\* another field.
DeficientRequest(req) ==
    /\ req # None
    /\ \/ ~req.json
       \/ req.val.t # "obj"
       \/ "TFC_TOKEN" \notin DOMAIN req.val.f
       \/ "RUN_ID" \notin DOMAIN req.val.f
       \/ DOMAIN req.val.f \ {"TFC_TOKEN", "RUN_ID"} # {}

\* The account details call answered with a non-error status and the flag
\* is-service-account with the given value.
AccountAnswered(i, flag) ==
    /\ acct_resp[i].kind = "http"
    /\ ~HttpErrorStatus(acct_resp[i].status)
    /\ acct_resp[i].body = Json(AccountJson(flag))

RunStatusNames == {"planning", "applying", "errored"}
WorkspaceIds == {"ws-1"}
OrgIds == {"org-a"}
WorkspaceNames == {"prod", "dev"}

\* The run details call resolved the run: status st, workspace w.
RunResolved(i, st, w) ==
    /\ run_resp[i].kind = "http"
    /\ run_resp[i].body = Json(RunJson(st, w))

RunEligible(i) ==
    \E st \in {"planning", "applying"}, w \in WorkspaceIds : RunResolved(i, st, w)

\* The workspace details call answered without HTTP error and resolved the
\* workspace to the slug o/n.
WorkspaceResolved(i, o, n) ==
    /\ ws_resp[i].kind = "http"
    /\ ~HttpErrorStatus(ws_resp[i].status)
    /\ ws_resp[i].body = Json(WorkspaceJson(o, n))

IsMapped(slug) == SA_MAPPING.valid /\ slug \in DOMAIN SA_MAPPING.val.f

\* The JSON shape of an error response.
ErrorShape(r) ==
    /\ r.kind = "http"
    /\ "status" \in DOMAIN r.body /\ r.body["status"] = JStr("error")
    /\ "token" \in DOMAIN r.body /\ r.body["token"] = JNull

HasMessage(r) ==
    \E k \in {"msg", "message"} : k \in DOMAIN r.body /\ r.body[k].t = "str"

ErrorResponse(i, code) ==
    /\ pc[i] = "done"
    /\ raised[i] = None
    /\ ErrorShape(response[i])
    /\ response[i].code = code

BadGatewayResponse(i) ==
    /\ ErrorResponse(i, 502)
    /\ response[i].body = ("status" :> JStr("error") @@ "msg" :> JStr("Bad Gateway")
                           @@ "token" :> JNull)

----------------------------------------------------------------------------
\* C1: the minting API is called in an invocation only after, in that same
\* invocation, the request passed the schema, the account details call
\* answered with a non-error status and is-service-account true, the run
\* was planning or applying, the workspace details call answered without
\* HTTP error, and the slug organization/name was found to be a key of the
\* identity mapping.
C1_MintOnlyAfterAllChecks ==
    \A i \in Invocations :
        Called(i, "mint") =>
            /\ ApiSeq(calls[i]) = <<"account", "run", "workspace", "mint">>
            /\ SchemaValidRequest(request[i])
            /\ AccountAnswered(i, JTrue)
            /\ RunEligible(i)
            /\ \E o \in OrgIds, n \in WorkspaceNames :
                   /\ WorkspaceResolved(i, o, n)
                   /\ IsMapped(o \o "/" \o n)

C1_Witness == \E i \in Invocations : Called(i, "mint")

\* The precondition of C2: token valid, run eligible, and the slug that the
\* handler composed from the workspace response is a key of the mapping.
C2_Pre(i) ==
    /\ pc[i] = "done"
    /\ AccountAnswered(i, JTrue)
    /\ RunEligible(i)
    /\ ws_slug[i] # None
    /\ \E o \in OrgIds, n \in WorkspaceNames :
           WorkspaceResolved(i, o, n) /\ ws_slug[i] = JStr(o \o "/" \o n)
    /\ IsMapped(ws_slug[i].v)

\* C2 as stated: with token valid, run eligible and slug mapped, the
\* response is 200 with status success and the token the minting API
\* returned, and the minting API is called with exactly the identity
\* reference the mapping holds for the slug.
C2_AsStated ==
    \A i \in Invocations :
        C2_Pre(i) =>
            /\ response[i].kind = "http"
            /\ response[i].code = 200
            /\ minted[i].kind = "token"
            /\ response[i].body = ("status" :> JStr("success")
                                   @@ "token" :> JStr(minted[i].access_token))
            /\ Called(i, "mint")
            /\ calls[i][Len(calls[i])].name = SA_MAPPING.val.f[ws_slug[i].v].v

\* C2 as amended: under the same precondition the run is fetched for the
\* request's RUN_ID, the workspace for the workspace id of the run response,
\* and the minting API is called once, with the resource name
\* projects/-/serviceAccounts/<mapped reference> and the cloud-platform
\* scope; if that call returns a token the response is 200 with status
\* success and that token, and if it raises, the exception leaves the handler
\* and there is no response.
C2_MintForMappedIdentity ==
    \A i \in Invocations :
        C2_Pre(i) =>
            /\ ApiSeq(calls[i]) = <<"account", "run", "workspace", "mint">>
            /\ calls[i][2].url = "https://app.terraform.io/api/v2/runs/"
                                     \o request[i].val.f["RUN_ID"].v
            /\ \E st \in RunStatusNames, w \in WorkspaceIds :
                   /\ RunResolved(i, st, w)
                   /\ calls[i][3].url = "https://app.terraform.io/api/v2/workspaces/" \o w
            /\ calls[i][4].name = "projects/-/serviceAccounts/"
                                      \o SA_MAPPING.val.f[ws_slug[i].v].v
            /\ calls[i][4].scope = <<"https://www.googleapis.com/auth/cloud-platform">>
            /\ IF minted[i].kind = "token"
               THEN /\ raised[i] = None
                    /\ response[i].kind = "http"
                    /\ response[i].code = 200
                    /\ response[i].body = ("status" :> JStr("success")
                                           @@ "token" :> JStr(minted[i].access_token))
               ELSE /\ response[i] = None
                    /\ raised[i].kind = "exc"

C2_Witness ==
    \E i \in Invocations :
        /\ C2_Pre(i)
        /\ response[i].kind = "http"
        /\ response[i].code = 200
        /\ ws_slug[i] = JStr("org-a/dev")

\* C3: a schema-valid request whose account details call answers 401 gets
\* exactly 401 with status error and token null, and the account details
\* call is the only outbound call of the invocation.
C3_Unauthorized ==
    \A i \in Invocations :
        (acct_resp[i].kind = "http" /\ acct_resp[i].status = 401) =>
            /\ SchemaValidRequest(request[i])
            /\ ErrorResponse(i, 401)
            /\ ApiSeq(calls[i]) = <<"account">>

C3_Witness ==
    \E i \in Invocations :
        /\ acct_resp[i].kind = "http"
        /\ acct_resp[i].status = 401
        /\ response[i].kind = "http"

\* C4: a token the account details call accepts but whose is-service-account
\* flag is false gets 400 with token null, and no run details, workspace
\* details or minting call is made, whatever the run id and the mapping.
C4_NotServiceAccount ==
    \A i \in Invocations :
        AccountAnswered(i, JFalse) =>
            /\ ErrorResponse(i, 400)
            /\ ApiSeq(calls[i]) = <<"account">>

C4_Witness ==
    \E i \in Invocations :
        /\ AccountAnswered(i, JFalse)
        /\ pc[i] = "done"
        /\ IsMapped("org-a/prod")

\* C5: a run resolved with a status other than planning and applying gets
\* 400 with token null whatever the mapping holds, and neither the workspace
\* details call nor the minting call is made.
C5_RunNotEligible ==
    \A i \in Invocations :
        \A st \in RunStatusNames \ {"planning", "applying"}, w \in WorkspaceIds :
            RunResolved(i, st, w) =>
                /\ ErrorResponse(i, 400)
                /\ ApiSeq(calls[i]) = <<"account", "run">>

C5_Witness ==
    \E i \in Invocations :
        /\ RunResolved(i, "errored", "ws-1")
        /\ pc[i] = "done"
        /\ IsMapped("org-a/prod") /\ IsMapped("org-a/dev")

\* C6: an invocation that resolves a workspace slug that is not a key of the
\* identity mapping gets 404 with status error and token null, and the
\* minting API is not called.
C6_UnmappedWorkspace ==
    \A i \in Invocations :
        \A o \in OrgIds, n \in WorkspaceNames :
            (WorkspaceResolved(i, o, n) /\ ~IsMapped(o \o "/" \o n)) =>
                /\ ws_slug[i] = JStr(o \o "/" \o n)
                /\ ErrorResponse(i, 404)
                /\ ~Called(i, "mint")

C6_Witness ==
    \E i \in Invocations :
        /\ WorkspaceResolved(i, "org-a", "dev")
        /\ IsMapped("org-a/prod")
        /\ ~IsMapped("org-a/dev")
        /\ pc[i] = "done"

\* C7: a request without TFC_TOKEN, without RUN_ID, with a field besides
\* those two, or without a usable body gets 400 with token null, and no
\* outbound call is made.  (Stated for a mapping that parsed.)
C7_DeficientRequestRejected ==
    \A i \in Invocations :
        (SA_MAPPING.valid /\ DeficientRequest(request[i])) =>
            /\ ErrorResponse(i, 400)
            /\ calls[i] = << >>

\* C8: every error response of the handler has status "error", a non-null
\* diagnostic message and a token field that is present and null.
C8_ErrorResponseShape ==
    \A i \in Invocations :
        (response[i].kind = "http" /\ response[i].code # 200) =>
            /\ ErrorShape(response[i])
            /\ HasMessage(response[i])

\* C9: whatever the request and whatever the three upstream calls answer
\* (any status, any body), a finished invocation has returned 200, 400, 401,
\* 404 or 502, or has failed in the minting call; nothing else happens.
\* (Stated for a mapping that parsed and for upstream calls that answered.)
C9_OnlyListedOutcomes ==
    \A i \in Invocations :
        ( /\ pc[i] = "done"
          /\ SA_MAPPING.valid
          /\ acct_resp[i].kind # "neterr"
          /\ run_resp[i].kind # "neterr"
          /\ ws_resp[i].kind # "neterr" ) =>
            \/ /\ raised[i] = None
               /\ response[i].kind = "http"
               /\ response[i].code \in {200, 400, 401, 404, 502}
            \/ /\ response[i] = None
               /\ raised[i].kind = "exc"
               /\ Called(i, "mint")

\* C10: an HTTP error status other than 401 from the account details call,
\* and any HTTP error status from the workspace details call, ends the
\* invocation with 502 and the Bad Gateway body, and no later call is made.
C10_BadGateway ==
    \A i \in Invocations :
        /\ ( /\ acct_resp[i].kind = "http"
             /\ HttpErrorStatus(acct_resp[i].status)
             /\ acct_resp[i].status # 401 ) =>
               /\ BadGatewayResponse(i)
               /\ ApiSeq(calls[i]) = <<"account">>
        /\ (ws_resp[i].kind = "http" /\ HttpErrorStatus(ws_resp[i].status)) =>
               /\ BadGatewayResponse(i)
               /\ ApiSeq(calls[i]) = <<"account", "run", "workspace">>

C10_Witness ==
    \E i, j \in Invocations :
        /\ acct_resp[i].kind = "http"
        /\ acct_resp[i].status = 403
        /\ ws_resp[j].kind = "http"
        /\ ws_resp[j].status = 404
        /\ ws_resp[j].body = Json(WorkspaceJson("org-a", "prod"))
        /\ IsMapped("org-a/prod")
        /\ pc[i] = "done" /\ pc[j] = "done"

\* The body has the JSON shape the stage reads.
AccountShaped(body) == \E flag \in {JTrue, JFalse} : body = Json(AccountJson(flag))
RunShaped(body) ==
    \E st \in RunStatusNames, w \in WorkspaceIds : body = Json(RunJson(st, w))
WorkspaceShaped(body) ==
    \E o \in OrgIds, n \in WorkspaceNames : body = Json(WorkspaceJson(o, n))

\* C11: an HTTP error status from the run details call does not end the
\* invocation by itself; the run stage then ends the invocation only with
\* 502 for a body that is not JSON or with 400 for a status outside
\* planning/applying, and a decodable body with an eligible status and a
\* workspace id takes the invocation on to the workspace details call.
C11_RunHttpErrorNotFatal ==
    \A i \in Invocations :
        (run_resp[i].kind = "http" /\ HttpErrorStatus(run_resp[i].status)) =>
            /\ (pc[i] = "done" /\ ~Called(i, "workspace")) =>
                   \/ BadGatewayResponse(i) /\ ~run_resp[i].body.json
                   \/ /\ ErrorResponse(i, 400)
                      /\ \E st \in RunStatusNames \ {"planning", "applying"},
                            w \in WorkspaceIds : RunResolved(i, st, w)
            /\ RunEligible(i) => (pc[i] = "workspace" \/ Called(i, "workspace"))

\* C12: at each of the three outbound stages a body that is not JSON, or is
\* JSON without the nested fields the stage reads, ends the invocation with
\* 502 and no later stage runs.
C12_UndecodableBodyIsBadGateway ==
    \A i \in Invocations :
        /\ ( /\ acct_resp[i].kind = "http"
             /\ ~HttpErrorStatus(acct_resp[i].status)
             /\ ~AccountShaped(acct_resp[i].body) ) =>
               BadGatewayResponse(i) /\ ApiSeq(calls[i]) = <<"account">>
        /\ (run_resp[i].kind = "http" /\ ~RunShaped(run_resp[i].body)) =>
               BadGatewayResponse(i) /\ ApiSeq(calls[i]) = <<"account", "run">>
        /\ ( /\ ws_resp[i].kind = "http"
             /\ ~HttpErrorStatus(ws_resp[i].status)
             /\ ~WorkspaceShaped(ws_resp[i].body) ) =>
               /\ BadGatewayResponse(i)
               /\ ApiSeq(calls[i]) = <<"account", "run", "workspace">>

\* C13: an outbound call that fails at the network level, with no HTTP
\* response, ends the invocation with 502 like an HTTP error does.
C13_NetworkFailureIsBadGateway ==
    \A i \in Invocations :
        (acct_resp[i] = NetError \/ run_resp[i] = NetError \/ ws_resp[i] = NetError) =>
            BadGatewayResponse(i)

IsPrefix(a, b) == Len(a) <= Len(b) /\ a = SubSeq(b, 1, Len(a))

\* The invocation is over: it has answered or an exception has left it.
Ended(i) == response[i] # None \/ raised[i] # None

\* C14: within an invocation the outbound calls are issued in the order
\* account, run, workspace, mint, each at most once and each only after the
\* one before it has returned an HTTP response, and once a stage has ended
\* the invocation no further call is issued.
C14_OrderedCallsNoRetry ==
    /\ [](\A i \in Invocations :
            /\ IsPrefix(ApiSeq(calls[i]), <<"account", "run", "workspace", "mint">>)
            /\ Called(i, "run") => acct_resp[i].kind = "http"
            /\ Called(i, "workspace") => run_resp[i].kind = "http"
            /\ Called(i, "mint") => ws_resp[i].kind = "http")
    /\ [][\A i \in Invocations :
            /\ Ended(i) => calls'[i] = calls[i]
            /\ Len(calls'[i]) <= Len(calls[i]) + 1
            /\ IsPrefix(calls[i], calls'[i])]_vars

C14_Witness ==
    \E i, j \in Invocations :
        /\ ApiSeq(calls[i]) = <<"account", "run", "workspace", "mint">>
        /\ ApiSeq(calls[j]) = <<"account", "run">>
        /\ Ended(j)

\* The invocation answered 200.
Succeeded(i) == response[i].kind = "http" /\ response[i].code = 200

\* C15: an invocation makes at most one minting call; it answers 200 exactly
\* when that call returned a token, and the token in the answer is that
\* token; a minting failure ends the invocation without an answer.  So every
\* successful invocation has a minting call of its own.
C15_OneMintPerSuccess ==
    \A i \in Invocations :
        /\ Cardinality({k \in DOMAIN calls[i] : calls[i][k].api = "mint"}) <= 1
        /\ Succeeded(i) <=> minted[i].kind = "token"
        /\ Succeeded(i) =>
               /\ Called(i, "mint")
               /\ response[i].body["token"] = JStr(minted[i].access_token)
        /\ minted[i] = MintFailure =>
               /\ pc[i] = "done"
               /\ response[i] = None
               /\ raised[i].kind = "exc"
        /\ Called(i, "mint") <=> minted[i] # None

\* Two successful invocations with the same request and the same upstream
\* answers, each with its own minting call and its own token.
C15_Witness ==
    \E i, j \in Invocations :
        /\ i # j
        /\ Succeeded(i) /\ Succeeded(j)
        /\ request[i] = request[j]
        /\ acct_resp[i] = acct_resp[j]
        /\ run_resp[i] = run_resp[j]
        /\ ws_resp[i] = ws_resp[j]
        /\ Called(i, "mint") /\ Called(j, "mint")
        /\ response[i].body["token"] # response[j].body["token"]

\* The upstream call of the stage answered, and the answer is a failure of
\* the upstream: an HTTP error status that ends the stage, or a body that
\* does not have the JSON shape the stage reads.
UpstreamFailure(i, stage) ==
    \/ /\ stage = "account"
       /\ acct_resp[i].kind = "http"
       /\ IF HttpErrorStatus(acct_resp[i].status)
          THEN acct_resp[i].status # 401
          ELSE ~AccountShaped(acct_resp[i].body)
    \/ /\ stage = "run"
       /\ run_resp[i].kind = "http"
       /\ ~RunShaped(run_resp[i].body)
    \/ /\ stage = "workspace"
       /\ ws_resp[i].kind = "http"
       /\ (HttpErrorStatus(ws_resp[i].status) \/ ~WorkspaceShaped(ws_resp[i].body))

\* C16: two invocations with the same request that fail at the same stage on
\* an upstream failure other than a 401 of the account call get the same
\* answer, the 502 Bad Gateway response, whatever the status and body of the
\* failing upstream answer.
C16_UpstreamFailureOpaque ==
    \A i, j \in Invocations :
        \A stage \in {"account", "run", "workspace"} :
            ( /\ i # j
              /\ request[i] = request[j]
              /\ UpstreamFailure(i, stage)
              /\ UpstreamFailure(j, stage) ) =>
                /\ BadGatewayResponse(i)
                /\ BadGatewayResponse(j)
                /\ response[i] = response[j]

EmptyMapping == SA_MAPPING.valid /\ DOMAIN SA_MAPPING.val.f = {}

\* C17: with an empty (or absent, which defaults to empty) identity mapping
\* the handler runs as usual: request, token and run failures get their
\* 400, 401 and 502, the minting API is never called, no invocation
\* succeeds, and every invocation that resolves a workspace gets 404.
C17_EmptyMappingNeverMints ==
    EmptyMapping =>
        \A i \in Invocations :
            /\ ~Called(i, "mint")
            /\ ~Succeeded(i)
            /\ request[i] # None => parsed_mapping[i] = JObj(<< >>)
            /\ (DeficientRequest(request[i]) /\ request[i].json /\ request[i].val.t = "obj")
                   => ErrorResponse(i, 400)
            /\ (acct_resp[i].kind = "http" /\ acct_resp[i].status = 401)
                   => ErrorResponse(i, 401)
            /\ (acct_resp[i].kind = "http" /\ acct_resp[i].status \in {403, 500})
                   => BadGatewayResponse(i)
            /\ AccountAnswered(i, JFalse) => ErrorResponse(i, 400)
            /\ (\E w \in WorkspaceIds : RunResolved(i, "errored", w))
                   => ErrorResponse(i, 400)
            /\ \A o \in OrgIds, n \in WorkspaceNames :
                   WorkspaceResolved(i, o, n) => ErrorResponse(i, 404)

C17_Witness ==
    /\ EmptyMapping
    /\ \E i, j \in Invocations :
           /\ WorkspaceResolved(i, "org-a", "prod")
           /\ response[i].kind = "http"
           /\ acct_resp[j].kind = "http" /\ acct_resp[j].status = 401

\* What an invocation received, and what it did with it.
InputsOf(i) == <<request[i], acct_resp[i], run_resp[i], ws_resp[i], minted[i]>>
OutputsOf(i) == <<pc[i], parsed_mapping[i], ws_slug[i], calls[i], response[i], raised[i]>>

\* C18: invocations are independent under every interleaving: what an
\* invocation calls and answers is determined by its own request, the
\* answers it received and the identity mapping; a step of one invocation
\* changes nothing of another; and the identity mapping never changes.
C18_InvocationsIndependent ==
    /\ [](\A i, j \in Invocations : InputsOf(i) = InputsOf(j) => OutputsOf(i) = OutputsOf(j))
    /\ [][/\ SA_MAPPING' = SA_MAPPING
          /\ \A i, j \in Invocations :
                (i # j /\ <<InputsOf(i), OutputsOf(i)>>' # <<InputsOf(i), OutputsOf(i)>>)
                    => <<InputsOf(j), OutputsOf(j)>>' = <<InputsOf(j), OutputsOf(j)>>]_vars

\* Two invocations interleaved: one has answered while the other, started
\* before that answer, is still waiting on an upstream call.
C18_Witness ==
    \E i, j \in Invocations :
        /\ i # j
        /\ Succeeded(i)
        /\ pc[j] = "workspace"
        /\ request[i] = request[j]

HasEmptyField(req) ==
    /\ SchemaValidRequest(req)
    /\ (req.val.f["TFC_TOKEN"].v = "" \/ req.val.f["RUN_ID"].v = "")

\* C19 as stated: a request whose TFC_TOKEN or RUN_ID is the empty string is
\* rejected with 400 before any outbound call.  (Stated for a mapping that
\* parsed.)
C19_AsStated ==
    \A i \in Invocations :
        (SA_MAPPING.valid /\ HasEmptyField(request[i])) =>
            /\ ErrorResponse(i, 400)
            /\ calls[i] = << >>

\* C19 as amended: the request decoder requires that TFC_TOKEN and RUN_ID are
\* present, are strings and are the only fields; the account details call is
\* made for exactly the requests that meet this, empty strings included.
C19_StringsReachAccountCall ==
    \A i \in Invocations :
        /\ Called(i, "account") => SchemaValidRequest(request[i])
        /\ (SA_MAPPING.valid /\ SchemaValidRequest(request[i])) =>
               /\ pc[i] = "account" \/ Called(i, "account")
               /\ Called(i, "account") =>
                      calls[i][1].headers = "Bearer " \o request[i].val.f["TFC_TOKEN"].v

C19_Witness ==
    \E i, j \in Invocations :
        /\ request[i] # None /\ request[j] # None
        /\ HasEmptyField(request[i]) /\ request[i].val.f["TFC_TOKEN"].v # ""
        /\ HasEmptyField(request[j]) /\ request[j].val.f["TFC_TOKEN"].v = ""
        /\ Called(i, "account") /\ Called(j, "account")

====
